---- MODULE Spec2Model ----
(***************************************************************************)
(* A model of review.py, the Vertex AI code-review bot: the PR-file        *)
(* enumerator (list_pr_files), the per-file loop of main(), the response   *)
(* normalizer (extract_text_from_vertex_response), the model invoker       *)
(* (call_vertex_predict) and the publisher (build_comment,                 *)
(* post_pr_comment).                                                       *)
(*                                                                         *)
(* Python values are modelled as follows.  A str is a TLA+ string.  A JSON *)
(* value (the result of r.json()) is a tagged record: JStr(s), JNull,      *)
(* JList(<<v1, ...>>) and JDict(<< <<k1, v1>>, ... >>); a dict keeps its   *)
(* keys in insertion order, which is the order d.items() visits them in.   *)
(* Every HTTP exchange is an input: the reply is drawn by the action that  *)
(* issues the request.                                                     *)
(***************************************************************************)
EXTENDS Integers, Sequences, FiniteSets, TLC

VARIABLES
    cfg,        \* the environment: [pr, sa, project], what is configured
    server,     \* the source API's reply to each page of /pulls/N/files
    pc,         \* where the run is: "start", "list", "listed", "loop", "exit"
    page,       \* list_pr_files: the page to request next
    files,      \* list_pr_files: the descriptors collected so far
    idx,        \* main: the position in files of the next file to process
    reviews,    \* main: the list of {"path", "review"} entries
    prompt,     \* the prompt of the last model request ("" before the first)
    fetched,    \* the text the last successful content fetch returned
    log,        \* per file whose iteration ended: the replies it was given
    nList,      \* requests issued to the file-listing endpoint
    nFetch,     \* requests issued for raw content
    nModel,     \* requests issued to the model backend
    nPost,      \* requests issued to the comment endpoint
    postResult, \* "none", "ok", "bad_status" or "exception"
    posted,     \* the body of the comment request, "" when none was made
    outcome,    \* "running", "returned", "sys_exit" or "uncaught"
    resp,       \* normalizer: the response value under construction
    result,     \* normalizer: what the extractor returned, JNull before
    wraps,      \* normalizer: how many times resp was wrapped in a mapping
    sibs        \* normalizer: how many sibling keys were added to resp

vars == <<cfg, server, pc, page, files, idx, reviews, prompt, fetched, log,
          nList, nFetch, nModel, nPost, postResult, posted, outcome,
          resp, result, wraps, sibs>>

pipelineVars == <<cfg, server, pc, page, files, idx, reviews, prompt, fetched,
                  log, nList, nFetch, nModel, nPost, postResult, posted,
                  outcome>>

extractVars == <<resp, result, wraps, sibs>>

----------------------------------------------------------------------------
(* Bounds of the model. *)

MaxFiles == 3
MaxPages == 3
MaxWraps == 3
MaxSibs == 1

(* Program constants. *)

PER_PAGE == 100
MAX_CHARS == 25000

----------------------------------------------------------------------------
(* JSON values. *)

JStr(s) == [t |-> "str", s |-> s]
JNull == [t |-> "null"]
JList(el) == [t |-> "list", el |-> el]
JDict(kv) == [t |-> "dict", kv |-> kv]

IsStr(v) == v.t = "str"
IsList(v) == v.t = "list"
IsDict(v) == v.t = "dict"

\* k in d
HasKey(d, k) == \E n \in 1..Len(d.kv) : d.kv[n][1] = k

\* d[k], for a key d has
Get(d, k) == d.kv[CHOOSE n \in 1..Len(d.kv) : d.kv[n][1] = k][2]

----------------------------------------------------------------------------
(* Strings. *)

RECURSIVE Repeat(_, _)
\* c * n
Repeat(c, n) ==
    IF n = 0 THEN ""
    ELSE LET h == Repeat(c, n \div 2)
         IN  IF n % 2 = 1 THEN h \o h \o c ELSE h \o h

EndsWith(s, suffix) ==
    /\ Len(suffix) <= Len(s)
    /\ SubSeq(s, Len(s) - Len(suffix) + 1, Len(s)) = suffix

UpperChars == "ABCDEFGHIJKLMNOPQRSTUVWXYZ"
LowerChars == "abcdefghijklmnopqrstuvwxyz"

LowerChar(c) ==
    IF \E n \in 1..26 : SubSeq(UpperChars, n, n) = c
    THEN LET n == CHOOSE m \in 1..26 : SubSeq(UpperChars, m, m) = c
         IN  SubSeq(LowerChars, n, n)
    ELSE c

RECURSIVE Lower(_)
\* s.lower()
Lower(s) ==
    IF s = "" THEN ""
    ELSE LowerChar(SubSeq(s, 1, 1)) \o Lower(SubSeq(s, 2, Len(s)))

----------------------------------------------------------------------------
(* The response normalizer. *)

\* Python's None, as find_content returns it
None == [t |-> "none"]

\* "if res:" on a value find_content returned: None and "" are falsy
Truthy(res) == IsStr(res) /\ res.s # ""

RECURSIVE FindContent(_), FindInItems(_, _), FindInList(_, _)

\* find_content(d)
FindContent(d) ==
    IF IsDict(d) THEN FindInItems(d.kv, 1)
    ELSE IF IsList(d) THEN FindInList(d.el, 1)
    ELSE None

\* the loop "for k, v in d.items()" of find_content, from item n on
FindInItems(kv, n) ==
    IF n > Len(kv) THEN None
    ELSE LET k == kv[n][1]
             v == kv[n][2]
         IN  IF k = "content" /\ IsStr(v) THEN v
             ELSE LET res == FindContent(v)
                  IN  IF Truthy(res) THEN res ELSE FindInItems(kv, n + 1)

\* the loop "for el in d" of find_content, from element n on
FindInList(el, n) ==
    IF n > Len(el) THEN None
    ELSE LET res == FindContent(el[n])
         IN  IF Truthy(res) THEN res ELSE FindInList(el, n + 1)

RECURSIVE Dump(_, _), DumpItems(_, _, _), DumpElems(_, _, _)

\* json.dumps(v, ensure_ascii=False, indent=2) at indentation ind; the
\* strings of the model hold no character that JSON escapes
Dump(v, ind) ==
    CASE IsStr(v) -> "\"" \o v.s \o "\""
      [] IsList(v) ->
            IF Len(v.el) = 0 THEN "[]"
            ELSE "[\n" \o DumpElems(v.el, 1, ind \o "  ") \o "\n" \o ind \o "]"
      [] IsDict(v) ->
            IF Len(v.kv) = 0 THEN "{}"
            ELSE "{\n" \o DumpItems(v.kv, 1, ind \o "  ") \o "\n" \o ind \o "}"
      [] OTHER -> "null"

DumpItems(kv, n, ind) ==
    LET item == ind \o "\"" \o kv[n][1] \o "\": " \o Dump(kv[n][2], ind)
    IN  IF n = Len(kv) THEN item
        ELSE item \o ",\n" \o DumpItems(kv, n + 1, ind)

DumpElems(el, n, ind) ==
    LET item == ind \o Dump(el[n], ind)
    IN  IF n = Len(el) THEN item
        ELSE item \o ",\n" \o DumpElems(el, n + 1, ind)

RECURSIVE PyRepr(_), ReprItems(_, _), ReprElems(_, _)

\* repr(v); the strings of the model hold no quote and no backslash
PyRepr(v) ==
    CASE IsStr(v) -> "'" \o v.s \o "'"
      [] IsList(v) ->
            IF Len(v.el) = 0 THEN "[]" ELSE "[" \o ReprElems(v.el, 1) \o "]"
      [] IsDict(v) ->
            IF Len(v.kv) = 0 THEN "{}" ELSE "{" \o ReprItems(v.kv, 1) \o "}"
      [] OTHER -> "None"

ReprItems(kv, n) ==
    LET item == "'" \o kv[n][1] \o "': " \o PyRepr(kv[n][2])
    IN  IF n = Len(kv) THEN item ELSE item \o ", " \o ReprItems(kv, n + 1)

ReprElems(el, n) ==
    IF n = Len(el) THEN PyRepr(el[n])
    ELSE PyRepr(el[n]) \o ", " \o ReprElems(el, n + 1)

\* str(v)
PyStr(v) == IF IsStr(v) THEN v.s ELSE PyRepr(v)

\* c0: "content" if a str, else output[0]["content"] of whatever type; None
\* stands for falling out of the block
FromCandidate(c0) ==
    IF ~IsDict(c0) THEN None
    ELSE IF HasKey(c0, "content") /\ IsStr(Get(c0, "content"))
         THEN Get(c0, "content")
    ELSE IF /\ HasKey(c0, "output")
            /\ IsList(Get(c0, "output"))
            /\ Len(Get(c0, "output").el) > 0
         THEN LET out0 == Get(c0, "output").el[1]
              IN  IF IsDict(out0) /\ HasKey(out0, "content")
                  THEN Get(out0, "content")
                  ELSE None
    ELSE None

\* the block "predictions -> content / candidates / output"
FromPredictions(r) ==
    IF ~(HasKey(r, "predictions") /\ IsList(Get(r, "predictions"))
            /\ Len(Get(r, "predictions").el) > 0)
    THEN None
    ELSE LET p0 == Get(r, "predictions").el[1]
         IN  IF ~IsDict(p0) THEN None
             ELSE IF HasKey(p0, "content") /\ IsStr(Get(p0, "content"))
                  THEN Get(p0, "content")
             ELSE IF HasKey(p0, "text") /\ IsStr(Get(p0, "text"))
                  THEN Get(p0, "text")
             ELSE IF HasKey(p0, "output") /\ IsStr(Get(p0, "output"))
                  THEN Get(p0, "output")
             ELSE IF /\ HasKey(p0, "candidates")
                     /\ IsList(Get(p0, "candidates"))
                     /\ Len(Get(p0, "candidates").el) > 0
                  THEN FromCandidate(Get(p0, "candidates").el[1])
             ELSE None

\* the block "candidates at top-level": first["content"] of whatever type
FromTopCandidates(r) ==
    IF /\ HasKey(r, "candidates")
       /\ IsList(Get(r, "candidates"))
       /\ Len(Get(r, "candidates").el) > 0
    THEN LET first == Get(r, "candidates").el[1]
         IN  IF IsDict(first) /\ HasKey(first, "content")
             THEN Get(first, "content")
             ELSE None
    ELSE None

\* extract_text_from_vertex_response(resp_json): the value returned, a
\* JStr for a str
ExtractText(r) ==
    IF ~IsDict(r) THEN JStr(PyStr(r))
    ELSE IF FromPredictions(r) # None THEN FromPredictions(r)
    ELSE IF FromTopCandidates(r) # None THEN FromTopCandidates(r)
    ELSE IF Truthy(FindContent(r)) THEN FindContent(r)
    ELSE JStr(Dump(r, ""))

----------------------------------------------------------------------------
(* The file enumerator. *)

\* one descriptor of the /pulls/N/files reply
File(name, url) == [filename |-> name, raw_url |-> url]

\* the reply to the request for page p: past the pages the source API holds
\* it answers 200 with an empty list
PageReply(p) ==
    IF p <= Len(server) THEN server[p] ELSE [status |-> 200, data |-> <<>>]

\* a slip in the comparison: a full page counts as the last one
ShortPageOffByOne(data) == Len(data) <= PER_PAGE

\* "len(data) < 100": the page is the last one
ShortPage(data) == Len(data) < PER_PAGE

\* one iteration of the "while True" loop of list_pr_files; "listed" is its
\* return
FetchPage ==
    /\ pc = "list"
    /\ nList' = nList + 1
    /\ LET r == PageReply(page)
       IN  IF r.status # 200
           THEN /\ pc' = "listed"
                /\ UNCHANGED <<files, page>>
           ELSE IF Len(r.data) = 0
           THEN /\ pc' = "listed"
                /\ UNCHANGED <<files, page>>
           ELSE /\ files' = files \o r.data
                /\ IF ShortPage(r.data)
                   THEN pc' = "listed" /\ page' = page
                   ELSE pc' = "list" /\ page' = page + 1
    /\ UNCHANGED <<cfg, server, idx, reviews, prompt, fetched, log, nFetch,
                   nModel, nPost, postResult, posted, outcome>>
    /\ UNCHANGED extractVars

----------------------------------------------------------------------------
(* Content fetch, size cap and prompt. *)

TEXT_FILE_EXTENSIONS ==
    {".py", ".js", ".ts", ".java", ".go", ".rs", ".c", ".cpp", ".md", ".txt",
     ".json", ".yaml", ".yml", ".html", ".css", ".sh", ".rb", ".php"}

\* is_text_file(filename): both exits return True
IsTextFile(filename) ==
    LET low == Lower(filename)
    IN  IF \E ext \in TEXT_FILE_EXTENSIONS : EndsWith(low, ext)
        THEN TRUE
        ELSE TRUE

\* the status check left out: the body of an error reply is taken as content
FetchRawContentAnyStatus(reply) ==
    IF reply.kind = "response" THEN reply.text ELSE ""

\* fetch_raw_content(raw_url), given the transport's reply
FetchRawContent(reply) ==
    IF reply.kind = "response" /\ reply.status = 200 THEN reply.text ELSE ""

TruncationMarker == "\n\n...file truncated for brevity..."

\* a slip in the comparison: content of exactly the cap is cut too
TruncateOffByOne(content) ==
    IF Len(content) >= MAX_CHARS
    THEN SubSeq(content, 1, MAX_CHARS) \o TruncationMarker
    ELSE content

\* the size cap of main
Truncate(content) ==
    IF Len(content) > MAX_CHARS
    THEN SubSeq(content, 1, MAX_CHARS) \o TruncationMarker
    ELSE content

PromptPreamble ==
    "You are a senior software engineer and code reviewer.\n"
    \o "Provide concise, actionable review comments as bullet points. "
    \o "Mention potential bugs, security issues, and style improvements. "
    \o "If you suggest code changes, provide short examples.\n\n"

\* the fence around the content: three backticks in the source; a TLA+
\* string cannot hold a backtick, so each is written as a quote
Fence == "'''"

\* the prompt of main, content being already capped
BuildPrompt(filename, content) ==
    PromptPreamble \o "Review file: " \o filename \o "\n\n" \o Fence
    \o content \o Fence \o "\n"

----------------------------------------------------------------------------
(* The model invoker. *)

\* call_vertex_predict(prompt, access_token), given the transport's reply:
\* what it returns, or that it raises.  Which endpoint and request body
\* GCP_MODEL selects does not change what is done with the reply.
CallVertexPredict(reply) ==
    IF ~cfg.project THEN [kind |-> "raise", value |-> JNull]
    ELSE IF reply.kind = "exception"
    THEN [kind |-> "return",
          value |-> JStr("(Vertex request failed: " \o reply.err \o ")")]
    ELSE IF reply.status \notin {200, 201}
    THEN [kind |-> "return",
          value |-> JStr("(Vertex error " \o ToString(reply.status) \o ": "
                         \o reply.text \o ")")]
    ELSE IF ~reply.parsed THEN [kind |-> "raise", value |-> JNull]
    ELSE [kind |-> "return", value |-> ExtractText(reply.json)]

\* whether call_vertex_predict sends its request
SendsModelRequest == cfg.project

----------------------------------------------------------------------------
(* The publisher. *)

RECURSIVE Join(_, _)
\* sep.join(lines)
Join(lines, sep) ==
    IF Len(lines) = 0 THEN ""
    ELSE IF Len(lines) = 1 THEN lines[1]
    ELSE lines[1] \o sep \o Join(Tail(lines), sep)

RECURSIVE SectionLines(_)
\* the lines build_comment appends per entry; r["review"] is a str here.
\* The backticks around the path are written as quotes.
SectionLines(rs) ==
    IF Len(rs) = 0 THEN <<>>
    ELSE <<"---", "**File:** '" \o rs[1].path \o "'", "", rs[1].review.s, "">>
         \o SectionLines(Tail(rs))

\* whether "\n".join(lines) raises TypeError: some r["review"] is no str
JoinRaises(rs) == \E n \in 1..Len(rs) : ~IsStr(rs[n].review)

\* build_comment(reviews); the header's dash is written in ASCII
BuildComment(rs) ==
    Join(<<"## Vertex AI - Automated Code Review (PoC)\n",
           "I am an automated reviewer. Suggestions below:\n">>
         \o SectionLines(rs)
         \o <<"\n*This is an automated comment.*">>, "\n")

----------------------------------------------------------------------------
(* The inputs of a run. *)

Paths == {"a.py", "logo.PNG"}

\* the source API of a run of main: one short page of at most MaxFiles
\* descriptors (a path may come twice), or an error
MainServers ==
    {<<[status |-> 404, data |-> <<>>]>>}
    \cup UNION {{<<[status |-> 200,
                    data |-> [k \in 1..n |-> File(names[k], k)]]>> :
                    names \in [1..n -> Paths]} : n \in 0..MaxFiles}

\* the transport's replies to a raw-content request
FetchReplies ==
    {[kind |-> "exception"],
     [kind |-> "response", status |-> 404, text |-> "Not Found"],
     [kind |-> "response", status |-> 200, text |-> ""],
     [kind |-> "response", status |-> 200, text |-> "x = 1"]}

\* a predict-shaped reply, a Gemini-shaped reply (its "content" is a
\* mapping) and a reply that holds no text
MainResponses ==
    {JDict(<< <<"predictions",
                JList(<<JDict(<< <<"content", JStr("REVIEW_TEXT")>> >>)>>)>> >>),
     JDict(<< <<"candidates",
                JList(<<JDict(<< <<"content",
                    JDict(<< <<"parts",
                        JList(<<JDict(<< <<"text", JStr("REVIEW_TEXT")>> >>)>>)
                    >> >>)>> >>)>>)>> >>),
     JDict(<< <<"error", JNull>> >>)}

\* the transport's replies to a model request
ModelReplies ==
    {[kind |-> "exception", err |-> "timed out"],
     [kind |-> "response", status |-> 503, text |-> "unavailable",
      parsed |-> FALSE],
     [kind |-> "response", status |-> 200, text |-> "<html>",
      parsed |-> FALSE]}
    \cup {[kind |-> "response", status |-> 200, text |-> "", parsed |-> TRUE,
           json |-> j] : j \in MainResponses}

\* the transport's replies to the comment request
PostReplies ==
    {[kind |-> "exception"],
     [kind |-> "response", status |-> 201],
     [kind |-> "response", status |-> 403]}

----------------------------------------------------------------------------
(* main. *)

\* get_pr_info(), and the entry of list_pr_files
GetPrInfo ==
    /\ pc = "start"
    /\ IF cfg.pr
       THEN /\ pc' = "list"
            /\ page' = 1
            /\ files' = <<>>
            /\ UNCHANGED outcome
       ELSE /\ pc' = "exit"
            /\ outcome' = "sys_exit"
            /\ UNCHANGED <<page, files>>
    /\ UNCHANGED <<cfg, server, idx, reviews, prompt, fetched, log, nList,
                   nFetch, nModel, nPost, postResult, posted>>
    /\ UNCHANGED extractVars

\* main from the return of list_pr_files to the head of the loop
StartReview ==
    /\ pc = "listed"
    /\ IF Len(files) = 0
       THEN /\ pc' = "exit"
            /\ outcome' = "returned"
            /\ UNCHANGED <<idx, reviews>>
       ELSE IF ~cfg.sa
       THEN /\ pc' = "exit"
            /\ outcome' = "sys_exit"
            /\ UNCHANGED <<idx, reviews>>
       ELSE /\ pc' = "loop"
            /\ idx' = 1
            /\ reviews' = <<>>
            /\ UNCHANGED outcome
    /\ UNCHANGED <<cfg, server, page, files, prompt, fetched, log, nList,
                   nFetch, nModel, nPost, postResult, posted>>
    /\ UNCHANGED extractVars

\* one iteration of "for f in files"
ProcessFile ==
    /\ pc = "loop"
    /\ idx <= Len(files)
    /\ LET f == files[idx]
       IN  IF ~IsTextFile(f.filename)
           THEN /\ idx' = idx + 1
                /\ log' = Append(log, [path |-> f.filename,
                                       fetch |-> [kind |-> "none"],
                                       model |-> [kind |-> "none"]])
                /\ UNCHANGED <<pc, reviews, prompt, fetched, nFetch, nModel,
                               outcome>>
           ELSE \E fr \in FetchReplies :
                /\ nFetch' = nFetch + 1
                /\ IF FetchRawContent(fr) = ""
                   THEN /\ idx' = idx + 1
                        /\ log' = Append(log, [path |-> f.filename,
                                               fetch |-> fr,
                                               model |-> [kind |-> "none"]])
                        /\ UNCHANGED <<pc, reviews, prompt, fetched, nModel,
                                       outcome>>
                   ELSE /\ fetched' = FetchRawContent(fr)
                        /\ prompt' = BuildPrompt(f.filename,
                                                 Truncate(FetchRawContent(fr)))
                        /\ nModel' = IF SendsModelRequest THEN nModel + 1
                                     ELSE nModel
                        /\ \E mr \in ModelReplies :
                           LET out == CallVertexPredict(mr)
                           IN  IF out.kind = "raise"
                               THEN /\ pc' = "exit"
                                    /\ outcome' = "uncaught"
                                    /\ UNCHANGED <<idx, reviews, log>>
                               ELSE /\ reviews' = Append(reviews,
                                            [path |-> f.filename,
                                             review |-> out.value])
                                    /\ idx' = idx + 1
                                    /\ log' = Append(log,
                                            [path |-> f.filename,
                                             fetch |-> fr,
                                             model |-> mr])
                                    /\ UNCHANGED <<pc, outcome>>
    /\ UNCHANGED <<cfg, server, page, files, nList, nPost, postResult, posted>>
    /\ UNCHANGED extractVars

\* the empty-report check left out
NoReviewsNever(rs) == FALSE

\* "if not reviews"
NoReviews(rs) == Len(rs) = 0

\* main past the loop: build_comment and post_pr_comment
Publish ==
    /\ pc = "loop"
    /\ idx > Len(files)
    /\ pc' = "exit"
    /\ IF NoReviews(reviews)
       THEN /\ outcome' = "returned"
            /\ UNCHANGED <<nPost, postResult, posted>>
       ELSE IF JoinRaises(reviews)
       THEN /\ outcome' = "uncaught"
            /\ UNCHANGED <<nPost, postResult, posted>>
       ELSE \E pr \in PostReplies :
            /\ nPost' = nPost + 1
            /\ posted' = BuildComment(reviews)
            /\ postResult' = IF pr.kind = "exception" THEN "exception"
                             ELSE IF pr.status \in {200, 201} THEN "ok"
                             ELSE "bad_status"
            /\ outcome' = IF pr.kind = "exception" THEN "uncaught"
                          ELSE "returned"
    /\ UNCHANGED <<cfg, server, page, files, idx, reviews, prompt, fetched,
                   log, nList, nFetch, nModel>>
    /\ UNCHANGED extractVars

\* the status the process ends with: 0 when main returns, 1 on sys.exit(1)
\* and on an uncaught exception
ExitCode == IF outcome = "returned" THEN 0 ELSE 1

Init ==
    /\ cfg \in [pr : BOOLEAN, sa : BOOLEAN, project : BOOLEAN]
    /\ server \in MainServers
    /\ pc = "start"
    /\ page = 1
    /\ files = <<>>
    /\ idx = 1
    /\ reviews = <<>>
    /\ prompt = ""
    /\ fetched = ""
    /\ log = <<>>
    /\ nList = 0
    /\ nFetch = 0
    /\ nModel = 0
    /\ nPost = 0
    /\ postResult = "none"
    /\ posted = ""
    /\ outcome = "running"
    /\ resp = JNull
    /\ result = JNull
    /\ wraps = 0
    /\ sibs = 0

Next ==
    \/ GetPrInfo
    \/ FetchPage
    \/ StartReview
    \/ ProcessFile
    \/ Publish

Spec == Init /\ [][Next]_vars

----------------------------------------------------------------------------
(* list_pr_files on its own, against a source API of full, short and empty  *)
(* pages and errors.                                                        *)

\* the descriptors of page p when it holds n of them: each one distinct
PageData(p, n) == [k \in 1..n |-> File("a.py", (p - 1) * PER_PAGE + k)]

EnumPageKinds ==
    {[status |-> 200, n |-> PER_PAGE],
     [status |-> 200, n |-> 37],
     [status |-> 200, n |-> 0],
     [status |-> 404, n |-> 0]}

EnumServers ==
    UNION {{[p \in 1..len |-> [status |-> ks[p].status,
                               data |-> PageData(p, ks[p].n)]] :
                ks \in [1..len -> EnumPageKinds]} : len \in 1..MaxPages}

InitEnum ==
    /\ cfg = [pr |-> TRUE, sa |-> TRUE, project |-> TRUE]
    /\ server \in EnumServers
    /\ pc = "list"
    /\ page = 1
    /\ files = <<>>
    /\ idx = 1
    /\ reviews = <<>>
    /\ prompt = ""
    /\ fetched = ""
    /\ log = <<>>
    /\ nList = 0
    /\ nFetch = 0
    /\ nModel = 0
    /\ nPost = 0
    /\ postResult = "none"
    /\ posted = ""
    /\ outcome = "running"
    /\ resp = JNull
    /\ result = JNull
    /\ wraps = 0
    /\ sibs = 0

NextEnum == FetchPage

\* a request that was issued is answered: the loop takes its next step
SpecEnum == InitEnum /\ [][NextEnum]_vars /\ WF_vars(FetchPage)

----------------------------------------------------------------------------
(* The size cap and the prompt on their own, on contents around the cap.   *)

MaxSlack == 12

Digits == "0123456789"

\* a text of n characters whose character tells its position
Content(n) == Repeat(Digits, n \div 10) \o SubSeq(Digits, 1, n % 10)

PromptContents ==
    {Content(n) : n \in (1..MaxSlack)
                        \cup ((MAX_CHARS - MaxSlack)..(MAX_CHARS + MaxSlack))}

\* lines 291-300 of main, for the file at idx and the content fetched
CapAndPrompt ==
    /\ pc = "fetched"
    /\ prompt' = BuildPrompt(files[idx].filename, Truncate(fetched))
    /\ pc' = "prompted"
    /\ UNCHANGED <<cfg, server, page, files, idx, reviews, fetched, log,
                   nList, nFetch, nModel, nPost, postResult, posted, outcome>>
    /\ UNCHANGED extractVars

InitPrompt ==
    /\ cfg = [pr |-> TRUE, sa |-> TRUE, project |-> TRUE]
    /\ server = <<>>
    /\ pc = "fetched"
    /\ page = 1
    /\ files \in {<<File(name, 1)>> : name \in Paths}
    /\ idx = 1
    /\ reviews = <<>>
    /\ prompt = ""
    /\ fetched \in PromptContents
    /\ log = <<>>
    /\ nList = 0
    /\ nFetch = 1
    /\ nModel = 0
    /\ nPost = 0
    /\ postResult = "none"
    /\ posted = ""
    /\ outcome = "running"
    /\ resp = JNull
    /\ result = JNull
    /\ wraps = 0
    /\ sibs = 0

NextPrompt == CapAndPrompt

SpecPrompt == InitPrompt /\ [][NextPrompt]_vars

----------------------------------------------------------------------------
(* The normalizer on its own, on responses built by nesting.               *)

Keys == {"predictions", "candidates", "content", "text", "output", "x"}

Leaves == {JStr("REVIEW_TEXT"), JStr(""), JNull}

SiblingValues == {JStr("OTHER")}

\* resp, unless a sequence already, becomes [resp]
WrapInList ==
    /\ pc = "build"
    /\ ~IsList(resp)
    /\ resp' = JList(<<resp>>)
    /\ UNCHANGED <<result, wraps, sibs>>
    /\ UNCHANGED pipelineVars

\* resp becomes {k: resp}
WrapInDict ==
    /\ pc = "build"
    /\ wraps < MaxWraps
    /\ \E k \in Keys : resp' = JDict(<< <<k, resp>> >>)
    /\ wraps' = wraps + 1
    /\ UNCHANGED <<result, sibs>>
    /\ UNCHANGED pipelineVars

\* resp, a mapping, gets one more key after those it has
AddKeyBack ==
    /\ pc = "build"
    /\ sibs < MaxSibs
    /\ IsDict(resp)
    /\ \E k \in Keys, v \in SiblingValues :
        /\ ~HasKey(resp, k)
        /\ resp' = JDict(Append(resp.kv, <<k, v>>))
    /\ sibs' = sibs + 1
    /\ UNCHANGED <<result, wraps>>
    /\ UNCHANGED pipelineVars

\* resp, a mapping, gets one more key before those it has
AddKeyFront ==
    /\ pc = "build"
    /\ sibs < MaxSibs
    /\ IsDict(resp)
    /\ \E k \in Keys, v \in SiblingValues :
        /\ ~HasKey(resp, k)
        /\ resp' = JDict(<< <<k, v>> >> \o resp.kv)
    /\ sibs' = sibs + 1
    /\ UNCHANGED <<result, wraps>>
    /\ UNCHANGED pipelineVars

\* extract_text_from_vertex_response(resp)
Extract ==
    /\ pc = "build"
    /\ result' = ExtractText(resp)
    /\ pc' = "extracted"
    /\ UNCHANGED <<cfg, server, page, files, idx, reviews, prompt, fetched,
                   log, nList, nFetch, nModel, nPost, postResult, posted,
                   outcome>>
    /\ UNCHANGED <<resp, wraps, sibs>>

InitExtract ==
    /\ cfg = [pr |-> TRUE, sa |-> TRUE, project |-> TRUE]
    /\ server = <<>>
    /\ pc = "build"
    /\ page = 1
    /\ files = <<>>
    /\ idx = 1
    /\ reviews = <<>>
    /\ prompt = ""
    /\ fetched = ""
    /\ log = <<>>
    /\ nList = 0
    /\ nFetch = 0
    /\ nModel = 0
    /\ nPost = 0
    /\ postResult = "none"
    /\ posted = ""
    /\ outcome = "running"
    /\ resp \in Leaves
    /\ result = JNull
    /\ wraps = 0
    /\ sibs = 0

NextExtract ==
    \/ WrapInList
    \/ WrapInDict
    \/ AddKeyBack
    \/ AddKeyFront
    \/ Extract

SpecExtract == InitExtract /\ [][NextExtract]_vars

----------------------------------------------------------------------------
(* What the claims speak of, stated from the replies a run was given.      *)

\* a content fetch that failed: an exception, a status other than 200 or
\* an empty body
FetchFailed(fr) ==
    \/ fr.kind = "exception"
    \/ fr.kind = "response" /\ (fr.status # 200 \/ fr.text = "")

\* a model call that failed: an exception or a non-success status
BackendFailed(mr) ==
    \/ mr.kind = "exception"
    \/ mr.kind = "response" /\ mr.status \notin {200, 201}

ConfigDefect == ~cfg.pr \/ ~cfg.sa \/ ~cfg.project

RunEnded == pc = "exit"

----------------------------------------------------------------------------
(* C1.  Every file accepted into the pipeline has exactly one entry in the *)
(* report, at its enumeration position, whether or not its content fetch   *)
(* failed: after n iterations the report holds n entries, entry k being    *)
(* the one of file k.                                                      *)

C1_OneEntryPerFile ==
    /\ Len(reviews) = Len(log)
    /\ \A k \in 1..Len(reviews) : reviews[k].path = files[k].filename

----------------------------------------------------------------------------
(* C2.  No failure of one file aborts the run: the run never ends on an    *)
(* uncaught exception before it has reached the comment request, whatever  *)
(* the content fetch, the model call and the response were.                *)

C2_NeverAbortsOnFile ==
    (RunEnded /\ outcome = "uncaught") => postResult = "exception"

----------------------------------------------------------------------------
(* C3.  list_pr_files terminates; it stops at the first page that is short *)
(* or whose status is not 200, issues no request after that page, and      *)
(* returns the concatenation, in order, of the pages received with status  *)
(* 200 up to the stop; pages of 100, 100 and 37 items give 237 entries     *)
(* after 3 requests.                                                       *)

\* the first page that is short or not a success
StopPage ==
    CHOOSE p \in 1..(Len(server) + 1) :
        /\ PageReply(p).status # 200 \/ Len(PageReply(p).data) < 100
        /\ \A q \in 1..(p - 1) :
            PageReply(q).status = 200 /\ Len(PageReply(q).data) >= 100

RECURSIVE PagesUpTo(_)
\* the items of the successful pages among the first p
PagesUpTo(p) ==
    IF p = 0 THEN <<>>
    ELSE PagesUpTo(p - 1)
         \o (IF PageReply(p).status = 200 THEN PageReply(p).data ELSE <<>>)

C3_Stops ==
    /\ nList <= StopPage
    /\ pc = "listed" => (nList = StopPage /\ files = PagesUpTo(StopPage))
    /\ (/\ pc = "listed"
        /\ Len(server) = 3
        /\ \A p \in 1..3 : server[p].status = 200
        /\ Len(server[1].data) = 100
        /\ Len(server[2].data) = 100
        /\ Len(server[3].data) = 37) => (Len(files) = 237 /\ nList = 3)

C3_Pagination == [](C3_Stops) /\ <>(pc = "listed")

C3_Witness ==
    /\ pc = "listed"
    /\ nList = 3
    /\ Len(files) = 237
    /\ files[237].raw_url = 237

----------------------------------------------------------------------------
(* C4.  While the report holds no entry no comment request is made: a run  *)
(* that ends with an empty report has not invoked post_pr_comment, and no   *)
(* comment is posted without a per-file section.                           *)

C4_NoEmptyPublish ==
    /\ Len(reviews) = 0 => (nPost = 0 /\ posted = "")
    /\ nPost > 0 => posted # BuildComment(<<>>)

C4_Witness ==
    /\ RunEnded
    /\ outcome = "returned"
    /\ Len(files) = 2
    /\ Len(log) = 2
    /\ Len(reviews) = 0
    /\ nPost = 0

----------------------------------------------------------------------------
(* C5.  As claimed: when every file of the run failed, at the content      *)
(* fetch or at the model call, no comment request is made.                 *)

----------------------------------------------------------------------------
(* C6.  A run with a configuration defect (no PR identity, no usable       *)
(* service-account credential, no backend project id) issues no listing    *)
(* request, no content fetch and no model call.                            *)

C6_ConfigAbortsFirst ==
    ConfigDefect => (nList = 0 /\ nFetch = 0 /\ nModel = 0)

----------------------------------------------------------------------------
(* C7.  A run whose comment request failed ends with a failure status.     *)

C7_PostFailureReported ==
    (RunEnded /\ postResult \in {"bad_status", "exception"}) => ExitCode # 0

----------------------------------------------------------------------------
(* C8.  The content placed in the prompt.                                  *)

\* what stands between the fences of the prompt built for the file at idx
ContentInPrompt ==
    LET head == PromptPreamble \o "Review file: " \o files[idx].filename
                \o "\n\n" \o Fence
    IN  SubSeq(prompt, Len(head) + 1, Len(prompt) - Len(Fence) - 1)

(* As claimed: content of at most the cap is unmodified; longer content is *)
(* its first cap characters followed by "...truncated...", and so never    *)
(* longer than the cap plus the length of that marker.                     *)

C8_CapWithSpecMarker ==
    pc = "prompted" =>
        /\ Len(fetched) <= 25000 => ContentInPrompt = fetched
        /\ Len(fetched) > 25000 =>
            ContentInPrompt = SubSeq(fetched, 1, 25000) \o "...truncated..."
        /\ Len(ContentInPrompt) <= 25000 + Len("...truncated...")

(* C8, amended.  The cap is 25000 characters; content of at most 25000     *)
(* characters reaches the prompt unmodified; longer content is its first   *)
(* 25000 characters followed by two line breaks and "...file truncated for *)
(* brevity...", so the content in the prompt is never longer than 25000    *)
(* plus the 34 characters of that marker.                                  *)

C8_CapWithCodeMarker ==
    pc = "prompted" =>
        /\ Len(fetched) <= 25000 => ContentInPrompt = fetched
        /\ Len(fetched) > 25000 =>
            /\ SubSeq(ContentInPrompt, 1, 25000) = SubSeq(fetched, 1, 25000)
            /\ SubSeq(ContentInPrompt, 25001, Len(ContentInPrompt))
                = "\n\n...file truncated for brevity..."
        /\ Len(ContentInPrompt) <= 25000 + 34

C8_Witness ==
    /\ pc = "prompted"
    /\ Len(fetched) = 25001
    /\ Len(ContentInPrompt) = 25034

----------------------------------------------------------------------------
(* The prioritized matcher list the claims C9 and C10 measure the          *)
(* normalizer against: each matcher gives a JStr or None, the first that   *)
(* gives a JStr wins.                                                      *)

\* v[k] when v is a mapping with a string under k
StrField(v, k) ==
    IF IsDict(v) /\ HasKey(v, k) /\ IsStr(Get(v, k)) THEN Get(v, k) ELSE None

\* v[0] when v is a sequence with a first element
First(v) == IF IsList(v) /\ Len(v.el) > 0 THEN v.el[1] ELSE None

\* v[k] when v is a mapping with k
Field(v, k) == IF IsDict(v) /\ HasKey(v, k) THEN Get(v, k) ELSE None

\* 1: predictions[0].content, then .text, then .output
Matcher1(r) ==
    LET p0 == First(Field(r, "predictions"))
    IN  IF StrField(p0, "content") # None THEN StrField(p0, "content")
        ELSE IF StrField(p0, "text") # None THEN StrField(p0, "text")
        ELSE StrField(p0, "output")

\* 2: predictions[0].candidates[0].content, else its output[0].content
Matcher2(r) ==
    LET c0 == First(Field(First(Field(r, "predictions")), "candidates"))
    IN  IF StrField(c0, "content") # None THEN StrField(c0, "content")
        ELSE StrField(First(Field(c0, "output")), "content")

\* 3: candidates[0].content
Matcher3(r) == StrField(First(Field(r, "candidates")), "content")

\* 4: a top-level string-valued content
Matcher4(r) == StrField(r, "content")

RECURSIVE Matcher5(_), SearchItems(_, _), SearchElems(_, _)

\* 5: the first string-valued content key, depth first, in key/index order
Matcher5(v) ==
    IF IsDict(v) THEN SearchItems(v.kv, 1)
    ELSE IF IsList(v) THEN SearchElems(v.el, 1)
    ELSE None

SearchItems(kv, n) ==
    IF n > Len(kv) THEN None
    ELSE IF kv[n][1] = "content" /\ IsStr(kv[n][2]) THEN kv[n][2]
    ELSE IF Matcher5(kv[n][2]) # None THEN Matcher5(kv[n][2])
    ELSE SearchItems(kv, n + 1)

SearchElems(el, n) ==
    IF n > Len(el) THEN None
    ELSE IF Matcher5(el[n]) # None THEN Matcher5(el[n])
    ELSE SearchElems(el, n + 1)

\* the text the matcher list extracts, None when no matcher matches; a
\* response that is no mapping matches none
Matched(r) ==
    IF ~IsDict(r) THEN None
    ELSE IF Matcher1(r) # None THEN Matcher1(r)
    ELSE IF Matcher2(r) # None THEN Matcher2(r)
    ELSE IF Matcher3(r) # None THEN Matcher3(r)
    ELSE IF Matcher4(r) # None THEN Matcher4(r)
    ELSE Matcher5(r)

----------------------------------------------------------------------------
(* C9.  On a response that matches no matcher the extractor returns a      *)
(* degraded signal with a non-empty dump, one the caller can tell from an  *)
(* extracted review text: what it returns is not also what it returns, as  *)
(* the text extracted, for the response {"content": <that text>}.          *)

C9_MissIsDistinguishable ==
    (pc = "extracted" /\ Matched(resp) = None) =>
        /\ result # JStr("")
        /\ ~(/\ IsStr(result)
             /\ ExtractText(JDict(<< <<"content", result>> >>)) = result)

----------------------------------------------------------------------------
(* C10.  The extractor returns what the matcher list returns: whenever a   *)
(* matcher matches, the result is that matcher's string.                   *)

C10_AgreesWithMatchers ==
    (pc = "extracted" /\ Matched(resp) # None) =>
        (IsStr(result) /\ result = Matched(resp))

====
